---- MODULE Spec2Model ----
(***************************************************************************)
(* Osmosis swapper helpers of shapeshift web (src/unnamed/part_000):       *)
(*   - pollForComplete / txStatus: the transaction confirmation poller;    *)
(*   - findPool / getPoolRateInfo / getRateInfo: the constant-product      *)
(*     rate engine;                                                        *)
(*   - buildPerformIbcTransferUnsignedTx: the IBC transfer builder.        *)
(* The three pieces share no state.  Each one has its own specification:  *)
(* Spec and FairSpec (the poller), SpecPool and SpecRate (the rate engine, *)
(* over long lists of small pools and over single pools of every size),    *)
(* SpecIbc (the transfer builder); the variables of the other pieces stay  *)
(* at their initial value.                                                 *)
(***************************************************************************)
EXTENDS Integers, Sequences, FiniteSets, TLC

VARIABLES
    \* ---- pollForComplete ----
    pollPc,        \* "idle" | "reading" | "waiting" | "resolved" | "rejected"
    now,           \* Date.now(), in ms
    txid,          \* argument of pollForComplete
    startTime,     \* const startTime = Date.now()
    requests,      \* status requests (axios.get in txStatus) in flight
    timers,        \* pending setTimeout(poll, interval) timers
    timerDue,      \* time at which the pending timer is due
    lastResponse,  \* what the last status request produced
    lastStatus,    \* what txStatus returned for it
    settled,       \* the promise: pending, fulfilled with a value, rejected with an error
    \* ---- getRateInfo ----
    ratePc,        \* "idle" | "fetching" | "done"
    rateReq,       \* arguments of getRateInfo
    poolsResp,     \* what osmoService.get(poolsUrl) produced
    maybePool,     \* Result returned by findPool
    rateResult,    \* Result returned by getRateInfo
    poolRateArg,   \* sellAmount getPoolRateInfo was called with, if it was called
    \* ---- buildPerformIbcTransferUnsignedTx ----
    ibcPc,         \* "idle" | "awaitingBlock" | "returned" | "thrown"
    ibcInput,      \* arguments
    latestBlockResp, \* what axios.get(`${blockBaseUrl}/lcd/blocks/latest`) produced
    ibcResult      \* the CosmosSignTx returned, or the error the promise rejects with

pollVars == <<pollPc, now, txid, startTime, requests, timers, timerDue,
              lastResponse, lastStatus, settled>>
rateVars == <<ratePc, rateReq, poolsResp, maybePool, rateResult, poolRateArg>>
ibcVars  == <<ibcPc, ibcInput, latestBlockResp, ibcResult>>
vars     == <<pollVars, rateVars, ibcVars>>

\* A variable that holds no value yet; a string that is not set yet.
None == [none |-> TRUE]
Unset == "unset"

\* State of the promise pollForComplete returns.
Pending == [state |-> "pending"]
Fulfilled(v) == [state |-> "fulfilled", value |-> v]
Rejected(e) == [state |-> "rejected", reason |-> e]

(***************************************************************************)
(* Transaction confirmation poller                                         *)
(***************************************************************************)

\* const timeout = 300000 // 5 mins
timeout == 300000
\* const interval = 5000 // 5 seconds
interval == 5000

\* Longest time a status request takes, in ms.  A request takes 0 or
\* MaxLatency; a late firing of the timer is indistinguishable from a slow
\* request, since Date.now() is read only after the request has completed.
MaxLatency == 2500
Latencies == {0, MaxLatency}

\* Value of Date.now() when pollForComplete is called.
MaxStartClock == 1
StartClocks == {c * 7000 : c \in 0..MaxStartClock}

TxIds == {"TX_A", "TX_B"}

\* What axios.get(`${baseUrl}/lcd/txs/${txid}`) can produce: a response whose
\* data may carry codespace and gas_used, or a thrown network error.  The two
\* fields are the truthiness of data.codespace and data.gas_used, which is
\* all txStatus reads of them: a missing field, or missing data, is FALSE.
StatusResponses ==
    {[kind |-> "data", codespace |-> c, gas_used |-> g] : c \in BOOLEAN, g \in BOOLEAN}
      \cup {[kind |-> "networkError", codespace |-> FALSE, gas_used |-> FALSE]}

\* txStatus taking gas_used alone for success
TxStatusGasOnly(resp) ==
    IF resp.kind = "networkError" THEN "not found"
    ELSE IF resp.gas_used THEN "success"
    ELSE IF resp.codespace THEN "failed"
    ELSE "not found"

\* txStatus(txid, baseUrl)
TxStatus(resp) ==
    IF resp.kind = "networkError" THEN "not found"           \* catch (e)
    ELSE IF ~resp.codespace /\ resp.gas_used THEN "success"
    ELSE IF resp.codespace THEN "failed"
    ELSE "not found"

\* new SwapError(`Couldnt find tx ${txid}`, { code: SwapErrorType.RESPONSE_ERROR })
\* The message is the sequence of the template's parts.
PollTimeoutError(id) ==
    [name |-> "SwapError", code |-> "RESPONSE_ERROR", message |-> <<"Couldnt find tx ", id>>]

\* Date.now() - startTime > timeout, written with >=
TimedOutInclusive(t, start) == t - start >= timeout

\* Date.now() - startTime > timeout
TimedOut(t, start) == t - start > timeout

\* body of poll after `await txStatus`, rejecting on a 'failed' read
PollBranchFailFast(status, t, start) ==
    IF status = "success" THEN "resolve"
    ELSE IF status = "failed" \/ TimedOut(t, start) THEN "reject"
    ELSE "schedule"

\* body of poll after `await txStatus`, with the timeout test first
PollBranchTimeoutFirst(status, t, start) ==
    IF TimedOut(t, start) THEN "reject"
    ELSE IF status = "success" THEN "resolve"
    ELSE "schedule"

\* body of poll after `await txStatus`: which of the three branches is taken
PollBranch(status, t, start) ==
    IF status = "success" THEN "resolve"
    ELSE IF TimedOut(t, start) THEN "reject"
    ELSE "schedule"

PollInit ==
    /\ pollPc = "idle"
    /\ now \in StartClocks
    /\ txid = Unset
    /\ startTime = 0
    /\ requests = 0
    /\ timers = 0
    /\ timerDue = 0
    /\ lastResponse = [kind |-> "none", codespace |-> FALSE, gas_used |-> FALSE]
    /\ lastStatus = Unset
    /\ settled = Pending

\* pollForComplete(txid, baseUrl): the promise executor runs, and its call of
\* poll() runs up to the await of the status request.
PollForComplete(id) ==
    /\ pollPc = "idle"
    /\ txid' = id
    /\ startTime' = now
    /\ requests' = requests + 1
    /\ pollPc' = "reading"
    /\ UNCHANGED <<now, timers, timerDue, lastResponse, lastStatus, settled>>
    /\ UNCHANGED <<rateVars, ibcVars>>

\* poll with the setTimeout outside the if: the next tick is scheduled
\* whatever the branch
StatusReadAlwaysSchedules(resp, d) ==
    /\ pollPc = "reading"
    /\ requests > 0
    /\ now' = now + d
    /\ requests' = requests - 1
    /\ lastResponse' = resp
    /\ lastStatus' = TxStatus(resp)
    /\ LET branch == PollBranch(TxStatus(resp), now + d, startTime) IN
         settled' = CASE settled # Pending -> settled
                      [] branch = "resolve" -> Fulfilled(TxStatus(resp))
                      [] branch = "reject" -> Rejected(PollTimeoutError(txid))
                      [] OTHER -> settled
    /\ pollPc' = "waiting"
    /\ timers' = timers + 1
    /\ timerDue' = now + d + interval
    /\ UNCHANGED <<txid, startTime>>
    /\ UNCHANGED <<rateVars, ibcVars>>

\* The status request completes after d ms with resp; poll resumes.
StatusRead(resp, d) ==
    /\ pollPc = "reading"
    /\ requests > 0
    /\ now' = now + d
    /\ requests' = requests - 1
    /\ lastResponse' = resp
    /\ lastStatus' = TxStatus(resp)
    /\ LET branch == PollBranch(TxStatus(resp), now + d, startTime) IN
         CASE branch = "resolve" ->
                /\ pollPc' = "resolved"
                /\ settled' = Fulfilled(TxStatus(resp))
                /\ UNCHANGED <<timers, timerDue>>
           [] branch = "reject" ->
                /\ pollPc' = "rejected"
                /\ settled' = Rejected(PollTimeoutError(txid))
                /\ UNCHANGED <<timers, timerDue>>
           [] OTHER ->
                /\ pollPc' = "waiting"
                /\ timers' = timers + 1
                /\ timerDue' = now + d + interval
                /\ UNCHANGED settled
    /\ UNCHANGED <<txid, startTime>>
    /\ UNCHANGED <<rateVars, ibcVars>>

\* The timer firing as one set by setInterval would: it stays pending.
TimerFiresRepeating ==
    /\ pollPc = "waiting"
    /\ timers > 0
    /\ now' = IF timerDue > now THEN timerDue ELSE now
    /\ requests' = requests + 1
    /\ pollPc' = "reading"
    /\ UNCHANGED <<txid, startTime, timers, timerDue, lastResponse, lastStatus, settled>>
    /\ UNCHANGED <<rateVars, ibcVars>>

\* The timer set by setTimeout(poll, interval) fires: poll runs up to the
\* await of the next status request.
TimerFires ==
    /\ pollPc = "waiting"
    /\ timers > 0
    /\ now' = IF timerDue > now THEN timerDue ELSE now
    /\ timers' = timers - 1
    /\ requests' = requests + 1
    /\ pollPc' = "reading"
    /\ UNCHANGED <<txid, startTime, timerDue, lastResponse, lastStatus, settled>>
    /\ UNCHANGED <<rateVars, ibcVars>>

PollStart == \E id \in TxIds : PollForComplete(id)
StatusReadAny == \E resp \in StatusResponses, d \in Latencies : StatusRead(resp, d)

(***************************************************************************)
(* Exact fractions <<numerator, denominator>>, denominator > 0, in lowest  *)
(* terms.  They stand for the BigNumber values of getPoolRateInfo: a       *)
(* BigNumber division keeps DECIMAL_PLACES = 20 decimals, which is exact   *)
(* to within 10^-20; for the denominators of this model (below 10^20) a    *)
(* quotient lies on the same side of every half-integer as its fraction.   *)
(* "NaN" and "Infinity" are the BigNumber values of 0/0 and x/0.           *)
(***************************************************************************)

Abs(n) == IF n < 0 THEN -n ELSE n

RECURSIVE Gcd(_, _)
Gcd(a, b) == IF b = 0 THEN a ELSE Gcd(b, a % b)

IsNum(x) == x # "NaN" /\ x # "Infinity"

\* normalised fraction n/d, d # 0
Frac(n, d) ==
    LET g == Gcd(Abs(n), Abs(d))
        sgn == IF d < 0 THEN -1 ELSE 1
    IN  <<sgn * (n \div g), sgn * (d \div g)>>

\* bn(n) of an integer
FromInt(n) == <<n, 1>>

\* x.times(y)
Times(x, y) ==
    IF ~IsNum(x) \/ ~IsNum(y) THEN "NaN" ELSE Frac(x[1] * y[1], x[2] * y[2])

\* x.plus(y)
Plus(x, y) ==
    IF ~IsNum(x) \/ ~IsNum(y) THEN "NaN" ELSE Frac(x[1] * y[2] + y[1] * x[2], x[2] * y[2])

\* x.minus(y)
Minus(x, y) ==
    IF ~IsNum(x) \/ ~IsNum(y) THEN "NaN" ELSE Frac(x[1] * y[2] - y[1] * x[2], x[2] * y[2])

\* x.dividedBy(y)
DividedBy(x, y) ==
    IF ~IsNum(x) \/ ~IsNum(y) THEN "NaN"
    ELSE IF y[1] = 0 THEN (IF x[1] = 0 THEN "NaN" ELSE "Infinity")
    ELSE Frac(x[1] * y[2], x[2] * y[1])

\* x.abs()
AbsOf(x) == IF ~IsNum(x) THEN x ELSE <<Abs(x[1]), x[2]>>

\* x.toFixed(0): the decimal string of x rounded to an integer in BigNumber's
\* ROUNDING_MODE, which is ROUND_HALF_UP (to the nearest integer, a half
\* away from zero) unless configured otherwise
ToFixed0(x) ==
    IF ~IsNum(x) THEN x
    ELSE LET q == (2 * Abs(x[1]) + x[2]) \div (2 * x[2])
         IN  ToString(IF x[1] < 0 THEN -q ELSE q)

(***************************************************************************)
(* Rate engine: findPool, getPoolRateInfo, getRateInfo                     *)
(***************************************************************************)

\* Largest reserve of a pool and largest sell amount, in base units.
MaxReserve == 4
MaxSell == 4
\* Longest pools list the endpoint returns.
MaxPools == 2

Undefined == "undefined"

UOSMO == "uosmo"
ATOM_DENOM == "ibc/27394FB092D2ECCD56123C74F36E4C1F926001CEADA9CA97EA622B25F41E5EB2"
USDC_DENOM == "ibc/D189335C6E4A68B513C10AB227BF1C1D38C746766278BA3EEB4FB14124F1D858"

\* the lookup falling back to the native denomination for an unknown symbol
symbolDenomMappingDefaulting(symbol) ==
    CASE symbol = "OSMO" -> UOSMO
      [] symbol = "ATOM" -> ATOM_DENOM
      [] symbol = "USDC" -> USDC_DENOM
      [] OTHER -> UOSMO

\* symbolDenomMapping[symbol as keyof SymbolDenomMapping]
symbolDenomMapping(symbol) ==
    CASE symbol = "OSMO" -> UOSMO
      [] symbol = "ATOM" -> ATOM_DENOM
      [] symbol = "USDC" -> USDC_DENOM
      [] OTHER -> Undefined

MappedSymbols == {"OSMO", "ATOM", "USDC"}
\* Symbols a caller may pass: the mapped ones and one that is not mapped.
Symbols == MappedSymbols \cup {"BTC"}

\* Amounts are decimal strings of base units, as the pools endpoint and the
\* callers write them.
AmountStrings(max) == {ToString(n) : n \in 0..max}
MaxNumber == (MaxReserve + 2) * (MaxReserve + MaxSell + 2)
\* the integer each decimal string of the model's range denotes
ParseTable ==
    [s \in {ToString(n) : n \in (-MaxNumber)..MaxNumber} |->
        CHOOSE n \in (-MaxNumber)..MaxNumber : ToString(n) = s]

\* pool_params.swap_fee, a decimal string
SwapFees == {"0.002", "0.5"}

\* new BigNumber(s) of a decimal string
Bn(s) ==
    CASE s = "0.002" -> <<1, 500>>
      [] s = "0.5" -> <<1, 2>>
      [] s = "NaN" -> "NaN"
      [] s = "Infinity" -> "Infinity"
      [] OTHER -> IF s \in DOMAIN ParseTable THEN FromInt(ParseTable[s]) ELSE "NaN"

\* bnOrZero(s): bn(s), or bn(0) when s is falsy or bn(s) is not finite
BnOrZero(s) == IF IsNum(Bn(s)) THEN Bn(s) ELSE FromInt(0)

PoolDenoms == {UOSMO, ATOM_DENOM, USDC_DENOM}

\* PoolInfo: two reserves { token: { denom, amount } } of different
\* denominations and positive amounts, and the swap fee.
PoolAsset(d, n) == [token |-> [denom |-> d, amount |-> ToString(n)]]
PoolsUpTo(maxReserve, fees) ==
    {[pool_assets |-> <<PoolAsset(d[1], r0), PoolAsset(d[2], r1)>>,
      pool_params |-> [swap_fee |-> f]] :
        d \in {e \in PoolDenoms \X PoolDenoms : e[1] # e[2]},
        r0 \in 1..maxReserve, r1 \in 1..maxReserve, f \in fees}

ListsOf(S, maxLen) == UNION {[1..n -> S] : n \in 0..maxLen}

\* What osmoService.get(poolsUrl) produces: Ok with data.pools, or the Err of
\* a failed request.
OkPools(pools) == [ok |-> TRUE, data |-> [pools |-> pools]]
ErrPools == [ok |-> FALSE, error |-> [code |-> "QUERY_FAILED", message |-> "request failed"]]

\* find's predicate, matching when either denomination fits
PoolMatchesEither(pool, sellAssetDenom, buyAssetDenom) ==
    LET token0Denom == pool.pool_assets[1].token.denom
        token1Denom == pool.pool_assets[2].token.denom
    IN  \/ (token0Denom = sellAssetDenom \/ token1Denom = buyAssetDenom)
        \/ (token0Denom = buyAssetDenom \/ token1Denom = sellAssetDenom)

\* the predicate given to lodash find
PoolMatches(pool, sellAssetDenom, buyAssetDenom) ==
    LET token0Denom == pool.pool_assets[1].token.denom
        token1Denom == pool.pool_assets[2].token.denom
    IN  \/ (token0Denom = sellAssetDenom /\ token1Denom = buyAssetDenom)
        \/ (token0Denom = buyAssetDenom /\ token1Denom = sellAssetDenom)

\* position of the last matching pool (findLast instead of find)
FindLastMatch(pools, sellAssetDenom, buyAssetDenom) ==
    LET hits == {i \in 1..Len(pools) : PoolMatches(pools[i], sellAssetDenom, buyAssetDenom)}
    IN  IF hits = {} THEN 0 ELSE CHOOSE i \in hits : \A j \in hits : j <= i

\* find(pools, predicate): position (from 1) of the first pool the predicate
\* accepts, scanning from the head; 0 when find returns undefined
RECURSIVE FindFrom(_, _, _, _)
FindFrom(pools, i, sellAssetDenom, buyAssetDenom) ==
    IF i > Len(pools) THEN 0
    ELSE IF PoolMatches(pools[i], sellAssetDenom, buyAssetDenom) THEN i
    ELSE FindFrom(pools, i + 1, sellAssetDenom, buyAssetDenom)

FindMatch(pools, sellAssetDenom, buyAssetDenom) ==
    FindFrom(pools, 1, sellAssetDenom, buyAssetDenom)

\* the index pair, testing reserve 0 against the buy denomination
AssetIndexesByBuy(foundPool, sellAssetDenom, buyAssetDenom) ==
    IF foundPool.pool_assets[1].token.denom = buyAssetDenom
    THEN [sellAssetIndex |-> 0, buyAssetIndex |-> 1]
    ELSE [sellAssetIndex |-> 1, buyAssetIndex |-> 0]

\* { sellAssetIndex, buyAssetIndex } of the found pool (indexes from 0)
AssetIndexes(foundPool, sellAssetDenom, buyAssetDenom) ==
    IF foundPool.pool_assets[1].token.denom = sellAssetDenom
    THEN [sellAssetIndex |-> 0, buyAssetIndex |-> 1]
    ELSE [sellAssetIndex |-> 1, buyAssetIndex |-> 0]

\* makeSwapErrorRight({ message: 'could not find pool', code: POOL_NOT_FOUND })
PoolNotFound ==
    [ok |-> FALSE, error |-> [code |-> "POOL_NOT_FOUND", message |-> "could not find pool"]]

\* findPool(sellAssetSymbol, buyAssetSymbol, osmoUrl), given the response of
\* the pools request; andThen hands an Err response on unchanged.
FindPool(resp, sellAssetSymbol, buyAssetSymbol) ==
    LET sellAssetDenom == symbolDenomMapping(sellAssetSymbol)
        buyAssetDenom == symbolDenomMapping(buyAssetSymbol)
    IN  IF ~resp.ok THEN resp
        ELSE LET i == FindMatch(resp.data.pools, sellAssetDenom, buyAssetDenom) IN
             IF i = 0 THEN PoolNotFound
             ELSE LET foundPool == resp.data.pools[i]
                      idx == AssetIndexes(foundPool, sellAssetDenom, buyAssetDenom)
                  IN  [ok |-> TRUE,
                       value |-> [pool |-> foundPool,
                                  sellAssetIndex |-> idx.sellAssetIndex,
                                  buyAssetIndex |-> idx.buyAssetIndex]]

\* getPoolRateInfo with sellAssetFinalPoolSize = initial.minus(sellAmount)
GetPoolRateInfoMinus(sellAmount, pool, sellAssetIndex, buyAssetIndex) ==
    LET constantProduct == Times(BnOrZero(pool.pool_assets[1].token.amount),
                                 Bn(pool.pool_assets[2].token.amount))
        sellAssetInitialPoolSize == BnOrZero(pool.pool_assets[sellAssetIndex + 1].token.amount)
        buyAssetInitialPoolSize == BnOrZero(pool.pool_assets[buyAssetIndex + 1].token.amount)
        initialMarketPrice == DividedBy(sellAssetInitialPoolSize, buyAssetInitialPoolSize)
        sellAssetFinalPoolSize == Minus(sellAssetInitialPoolSize, Bn(sellAmount))
        buyAssetFinalPoolSize == DividedBy(constantProduct, sellAssetFinalPoolSize)
        finalMarketPrice == DividedBy(sellAssetFinalPoolSize, buyAssetFinalPoolSize)
        buyAmountCryptoBaseUnit == ToFixed0(Minus(buyAssetInitialPoolSize, buyAssetFinalPoolSize))
    IN  [rate |-> DividedBy(BnOrZero(buyAmountCryptoBaseUnit), Bn(sellAmount)),
         priceImpact |->
             AbsOf(Minus(FromInt(1), DividedBy(initialMarketPrice, finalMarketPrice))),
         buyAssetTradeFeeCryptoBaseUnit |->
             ToFixed0(Times(BnOrZero(buyAmountCryptoBaseUnit), BnOrZero(pool.pool_params.swap_fee))),
         buyAmountCryptoBaseUnit |-> buyAmountCryptoBaseUnit]

\* getPoolRateInfo(sellAmount, pool, sellAssetIndex, buyAssetIndex); rate and
\* priceImpact are the fractions whose toString() the code returns
GetPoolRateInfo(sellAmount, pool, sellAssetIndex, buyAssetIndex) ==
    LET constantProduct == Times(BnOrZero(pool.pool_assets[1].token.amount),
                                 Bn(pool.pool_assets[2].token.amount))
        sellAssetInitialPoolSize == BnOrZero(pool.pool_assets[sellAssetIndex + 1].token.amount)
        buyAssetInitialPoolSize == BnOrZero(pool.pool_assets[buyAssetIndex + 1].token.amount)
        initialMarketPrice == DividedBy(sellAssetInitialPoolSize, buyAssetInitialPoolSize)
        sellAssetFinalPoolSize == Plus(sellAssetInitialPoolSize, Bn(sellAmount))
        buyAssetFinalPoolSize == DividedBy(constantProduct, sellAssetFinalPoolSize)
        finalMarketPrice == DividedBy(sellAssetFinalPoolSize, buyAssetFinalPoolSize)
        buyAmountCryptoBaseUnit == ToFixed0(Minus(buyAssetInitialPoolSize, buyAssetFinalPoolSize))
    IN  [rate |-> DividedBy(BnOrZero(buyAmountCryptoBaseUnit), Bn(sellAmount)),
         priceImpact |->
             AbsOf(Minus(FromInt(1), DividedBy(initialMarketPrice, finalMarketPrice))),
         buyAssetTradeFeeCryptoBaseUnit |->
             ToFixed0(Times(BnOrZero(buyAmountCryptoBaseUnit), BnOrZero(pool.pool_params.swap_fee))),
         buyAmountCryptoBaseUnit |-> buyAmountCryptoBaseUnit]

\* sellAmountOrDefault without the substitution
SellAmountAsGiven(sellAmount) == sellAmount

\* const sellAmountOrDefault = sellAmount === '0' ? '1' : sellAmount
SellAmountOrDefault(sellAmount) == IF sellAmount = "0" THEN "1" ELSE sellAmount

\* getRateInfo(sellAsset, buyAsset, sellAmount, osmoUrl), given the response
\* of the pools request
GetRateInfo(resp, sellAsset, buyAsset, sellAmount) ==
    LET found == FindPool(resp, sellAsset, buyAsset) IN      \* maybePool
    IF ~found.ok THEN found
    ELSE [ok |-> TRUE,
          value |-> GetPoolRateInfo(SellAmountOrDefault(sellAmount), found.value.pool,
                                    found.value.sellAssetIndex,
                                    found.value.buyAssetIndex)]

\* getRateInfo is called and runs up to the await of the pools request.
GetRateInfoCall(sellAsset, buyAsset, sellAmount) ==
    /\ ratePc = "idle"
    /\ ratePc' = "fetching"
    /\ rateReq' = [sellAsset |-> sellAsset, buyAsset |-> buyAsset, sellAmount |-> sellAmount]
    /\ UNCHANGED <<poolsResp, maybePool, rateResult, poolRateArg>>
    /\ UNCHANGED <<pollVars, ibcVars>>

\* The pools request ends with resp; findPool and getRateInfo run to the end.
PoolsResponse(resp) ==
    /\ ratePc = "fetching"
    /\ ratePc' = "done"
    /\ poolsResp' = resp
    /\ maybePool' = FindPool(resp, rateReq.sellAsset, rateReq.buyAsset)
    /\ rateResult' = GetRateInfo(resp, rateReq.sellAsset, rateReq.buyAsset, rateReq.sellAmount)
    /\ poolRateArg' = IF FindPool(resp, rateReq.sellAsset, rateReq.buyAsset).ok
                      THEN SellAmountOrDefault(rateReq.sellAmount)
                      ELSE Unset
    /\ UNCHANGED rateReq
    /\ UNCHANGED <<pollVars, ibcVars>>

RateInit ==
    /\ ratePc = "idle"
    /\ rateReq = None
    /\ poolsResp = None
    /\ maybePool = None
    /\ rateResult = None
    /\ poolRateArg = Unset

\* Rate queries over pools lists of at most MaxPools small pools (the lookup).
MaxLookupReserve == 1
LookupResponses ==
    {OkPools(l) : l \in ListsOf(PoolsUpTo(MaxLookupReserve, {"0.002"}), MaxPools)}
RateCallLookup == \E s \in Symbols, b \in Symbols : GetRateInfoCall(s, b, "1")
PoolsOkLookup == ratePc = "fetching" /\ \E r \in LookupResponses : PoolsResponse(r)
PoolsErr == PoolsResponse(ErrPools)

\* Rate queries over the empty pools list and the lists of one pool, of every
\* reserve up to MaxReserve, with every sell amount up to MaxSell (the rate
\* computation).
RateResponses ==
    {OkPools(<<>>)} \cup {OkPools(<<p>>) : p \in PoolsUpTo(MaxReserve, SwapFees)}
RateCall ==
    \E s \in Symbols, b \in Symbols, a \in AmountStrings(MaxSell) : GetRateInfoCall(s, b, a)
PoolsOk == ratePc = "fetching" /\ \E r \in RateResponses : PoolsResponse(r)

(***************************************************************************)
(* IBC transfer builder: buildPerformIbcTransferUnsignedTx                 *)
(***************************************************************************)

\* Highest latest-block height the node reports.
MaxHeight == 4

\* The adapters, with getChainId's chain reference.
Adapters == {"cosmos", "osmosis"}
ChainReference(adapter) == IF adapter = "cosmos" THEN "cosmoshub-4" ELSE "osmosis-1"

IbcInputs ==
    [adapter : Adapters, amount : {"1", "2"}, accountNumber : 0..1, sequence : {"0", "7"},
     sender : {"cosmos1sender"}, receiver : {"osmo1receiver"}, denom : {"uatom"},
     sourceChannel : {"channel-141"}, feeAmount : {"2500"}, ibcAccountNumber : {"64"},
     gas : {"1350000"}, feeDenom : {"uatom"}]

\* The request of the latest block: its promise resolves with the block, or
\* rejects with the network error when the request fails; "threw" is an
\* exception raised by the call of axios.get itself, before any promise exists.
NetworkError == [name |-> "AxiosError", message |-> "Network Error"]
LatestBlockResponses ==
    {[kind |-> "resolved", height |-> ToString(h)] : h \in 1..MaxHeight}
      \cup {[kind |-> "rejected", height |-> Undefined], [kind |-> "threw", height |-> Undefined]}

\* new SwapError('failed to get latest block', { code: SwapErrorType.RESPONSE_ERROR })
LatestBlockError ==
    [name |-> "SwapError", code |-> "RESPONSE_ERROR", message |-> "failed to get latest block"]

\* Number(latestBlock)
HeightOf(s) == CHOOSE h \in 1..MaxHeight : ToString(h) = s

\* What `await (() => { try { return axios.get(..) } catch (e) { throw .. } })()`
\* gives: the try block returns the promise without awaiting it, so the catch
\* sees only an exception of the call; a rejection of the promise reaches the
\* await outside the try.
AwaitLatestBlock(resp) ==
    CASE resp.kind = "resolved" -> [threw |-> FALSE, value |-> resp.height]
      [] resp.kind = "threw" -> [threw |-> TRUE, value |-> LatestBlockError]
      [] OTHER -> [threw |-> TRUE, value |-> NetworkError]

\* the CosmosSignTx built from the input and the latest block height
UnsignedTx(input, latestBlock) ==
    [tx |-> [memo |-> "",
             fee |-> [amount |-> <<[amount |-> input.feeAmount, denom |-> input.feeDenom]>>,
                      gas |-> input.gas],
             signatures |-> <<>>,
             msg |-> <<[type |-> "cosmos-sdk/MsgTransfer",
                        value |-> [source_port |-> "transfer",
                                   source_channel |-> input.sourceChannel,
                                   token |-> [denom |-> input.denom, amount |-> input.amount],
                                   sender |-> input.sender,
                                   receiver |-> input.receiver,
                                   timeout_height |->
                                       [revision_number |-> "4",
                                        revision_height |->
                                            ToString(HeightOf(latestBlock) + 100)]]]>>],
     addressNList |-> <<"bip44", input.accountNumber>>,
     chain_id |-> ChainReference(input.adapter),
     account_number |-> input.ibcAccountNumber,
     sequence |-> input.sequence]

IbcInit ==
    /\ ibcPc = "idle"
    /\ ibcInput = None
    /\ latestBlockResp = None
    /\ ibcResult = None

\* buildPerformIbcTransferUnsignedTx(input) runs up to the await of the
\* latest-block request.
BuildIbcCall(input) ==
    /\ ibcPc = "idle"
    /\ ibcPc' = "awaitingBlock"
    /\ ibcInput' = input
    /\ UNCHANGED <<latestBlockResp, ibcResult>>
    /\ UNCHANGED <<pollVars, rateVars>>

\* The await ends; the function returns the unsigned transaction or its
\* promise rejects with what the await threw.
LatestBlockResponse(resp) ==
    /\ ibcPc = "awaitingBlock"
    /\ latestBlockResp' = resp
    /\ LET r == AwaitLatestBlock(resp) IN
         IF r.threw
         THEN /\ ibcPc' = "thrown"
              /\ ibcResult' = r.value
         ELSE /\ ibcPc' = "returned"
              /\ ibcResult' = UnsignedTx(ibcInput, r.value)
    /\ UNCHANGED ibcInput
    /\ UNCHANGED <<pollVars, rateVars>>

BuildIbc == \E input \in IbcInputs : BuildIbcCall(input)
LatestBlockAny == \E resp \in LatestBlockResponses : LatestBlockResponse(resp)

Init == PollInit /\ RateInit /\ IbcInit

Next == PollStart \/ StatusReadAny \/ TimerFires

Spec == Init /\ [][Next]_vars

\* The event loop runs a due timer, and a status request ends (axios resolves
\* or rejects it).
FairSpec ==
    /\ Spec
    /\ WF_vars(StatusReadAny)
    /\ WF_vars(TimerFires)

NextPool == RateCallLookup \/ PoolsOkLookup \/ PoolsErr
\* The rate engine and the transfer builder read no clock.
InitOne == Init /\ now = 0
SpecPool == InitOne /\ [][NextPool]_vars

NextRate == RateCall \/ PoolsOk \/ PoolsErr
SpecRate == InitOne /\ [][NextRate]_vars

NextIbc == BuildIbc \/ LatestBlockAny
SpecIbc == InitOne /\ [][NextIbc]_vars

(***************************************************************************)
(* Properties of the poller (Spec, FairSpec)                               *)
(***************************************************************************)

Elapsed == now - startTime
Polling == pollPc \in {"reading", "waiting"}
IsTimeoutError(e) ==
    /\ e.name = "SwapError"
    /\ e.code = "RESPONSE_ERROR"
    /\ \E i \in DOMAIN e.message : e.message[i] = txid

\* a poll is past its timeout and not settled yet
PastTimeout == Polling /\ Elapsed > timeout

\* C1: the promise is rejected only when more than the timeout has elapsed
\* since the start, with a RESPONSE_ERROR SwapError whose message contains
\* txid; and a poll that is past the timeout ends rejected unless a status
\* read returns 'success'.
C1_TimeoutRejects ==
    /\ [](pollPc = "rejected" =>
            Elapsed > timeout /\ settled.state = "rejected" /\ IsTimeoutError(settled.reason))
    /\ (PastTimeout ~> (pollPc = "rejected" \/ lastStatus = "success"))

C1_Witness == pollPc = "rejected" /\ lastStatus = "failed" /\ txid = "TX_B" /\ startTime > 0

\* C2: the promise is resolved, with 'success', exactly when a status read
\* returned 'success' (gas_used and no codespace); that read leaves no request
\* in flight and no timer pending.
C2_SuccessOnFirstSuccessRead ==
    /\ lastStatus = "success" =>
          pollPc = "resolved" /\ settled = Fulfilled("success") /\ timers = 0 /\ requests = 0
    /\ pollPc = "resolved" =>
          /\ lastStatus = "success"
          /\ lastResponse.kind = "data" /\ lastResponse.gas_used /\ ~lastResponse.codespace

C2_Witness == pollPc = "resolved" /\ Elapsed > interval /\ Elapsed <= timeout

\* C3: a status read of 'failed' or 'not found' that completes while the
\* elapsed time is at most the timeout settles nothing and leaves exactly one
\* timer pending, due interval ms later; and a rejection happens only past
\* the timeout, with the timeout error.
C3_FailedReadKeepsPolling ==
    /\ [][(requests' < requests /\ lastStatus' \in {"failed", "not found"}
              /\ now' - startTime <= timeout)
            => /\ pollPc' = "waiting"
               /\ settled' = Pending
               /\ timers' = 1 /\ requests' = 0
               /\ timerDue' = now' + interval]_vars
    /\ [](pollPc = "rejected" => Elapsed > timeout /\ settled = Rejected(PollTimeoutError(txid)))

C3_Witness == pollPc = "waiting" /\ lastStatus = "failed" /\ timers = 1 /\ Elapsed = timeout

(***************************************************************************)
(* Properties of the transfer builder (SpecIbc)                            *)
(***************************************************************************)

\* C4: when the latest-block request fails, the builder fails with the
\* SwapError 'failed to get latest block' of code RESPONSE_ERROR.
C4_LatestBlockFailureIsSwapError ==
    (ibcPc \in {"returned", "thrown"} /\ latestBlockResp.kind = "rejected")
        => (ibcPc = "thrown" /\ ibcResult = LatestBlockError)

(***************************************************************************)
(* Properties of the rate engine (SpecPool, SpecRate)                      *)
(***************************************************************************)

RateDone == ratePc = "done"
ReqSellDenom == symbolDenomMapping(rateReq.sellAsset)
ReqBuyDenom == symbolDenomMapping(rateReq.buyAsset)
Denom(pool, k) == pool.pool_assets[k + 1].token.denom
Reserve(pool, k) == ParseTable[pool.pool_assets[k + 1].token.amount]

\* the pool's two denominations are the pair (a, b) in either order
HasPair(pool, a, b) ==
    \/ Denom(pool, 0) = a /\ Denom(pool, 1) = b
    \/ Denom(pool, 0) = b /\ Denom(pool, 1) = a

IsPoolNotFound(r) == ~r.ok /\ r.error.code = "POOL_NOT_FOUND"

\* C5: when the pools listing was fetched and none of its pools holds the
\* requested pair, findPool and getRateInfo return Err POOL_NOT_FOUND, and
\* the rate computation is not run.
C5_NoMatchIsPoolNotFound ==
    (RateDone /\ poolsResp.ok
        /\ \A i \in DOMAIN poolsResp.data.pools :
              ~HasPair(poolsResp.data.pools[i], ReqSellDenom, ReqBuyDenom))
      => IsPoolNotFound(maybePool) /\ IsPoolNotFound(rateResult) /\ poolRateArg = Unset

C5_Witness ==
    /\ RateDone /\ poolsResp.ok /\ Len(poolsResp.data.pools) = MaxPools
    /\ rateReq.sellAsset = "OSMO" /\ rateReq.buyAsset = "USDC"
    /\ IsPoolNotFound(rateResult)

\* the result of the sell/buy request and that of the request with sell and
\* buy exchanged agree as C6 says
Mirrored(r1, r2, sellDenom, buyDenom) ==
    IF ~r1.ok THEN IsPoolNotFound(r1) /\ IsPoolNotFound(r2)
    ELSE /\ r2.ok
         /\ r1.value.pool = r2.value.pool
         /\ <<r1.value.sellAssetIndex, r1.value.buyAssetIndex>> \in {<<0, 1>>, <<1, 0>>}
         /\ r2.value.sellAssetIndex = r1.value.buyAssetIndex
         /\ r2.value.buyAssetIndex = r1.value.sellAssetIndex
         /\ Denom(r1.value.pool, r1.value.sellAssetIndex) = sellDenom
         /\ Denom(r1.value.pool, r1.value.buyAssetIndex) = buyDenom
         /\ Denom(r2.value.pool, r2.value.sellAssetIndex) = buyDenom
         /\ Denom(r2.value.pool, r2.value.buyAssetIndex) = sellDenom

\* C6: for two distinct mapped symbols, findPool of the pair and findPool of
\* the exchanged pair both fail with POOL_NOT_FOUND or both return the same
\* pool with exchanged indexes, each index pointing at its denomination.
C6_LookupOrderIndependent ==
    (RateDone /\ poolsResp.ok
        /\ rateReq.sellAsset \in MappedSymbols /\ rateReq.buyAsset \in MappedSymbols
        /\ rateReq.sellAsset # rateReq.buyAsset)
      => Mirrored(maybePool, FindPool(poolsResp, rateReq.buyAsset, rateReq.sellAsset),
                  ReqSellDenom, ReqBuyDenom)

C6_Witness ==
    /\ RateDone /\ maybePool.ok
    /\ maybePool.value.sellAssetIndex = 1
    /\ Len(poolsResp.data.pools) = MaxPools

\* C7: the pool findPool returns stands at the first position of the list
\* whose pool holds the requested pair.
C7_FirstMatchingPool ==
    (RateDone /\ maybePool.ok /\ poolsResp.ok) =>
        \E i \in DOMAIN poolsResp.data.pools :
            /\ maybePool.value.pool = poolsResp.data.pools[i]
            /\ HasPair(poolsResp.data.pools[i], ReqSellDenom, ReqBuyDenom)
            /\ \A j \in 1..(i - 1) :
                  /\ ~HasPair(poolsResp.data.pools[j], ReqSellDenom, ReqBuyDenom)
                  /\ poolsResp.data.pools[j] # maybePool.value.pool

C7_Witness ==
    /\ RateDone /\ maybePool.ok /\ Len(poolsResp.data.pools) = 2
    /\ HasPair(poolsResp.data.pools[1], ReqSellDenom, ReqBuyDenom)
    /\ HasPair(poolsResp.data.pools[2], ReqSellDenom, ReqBuyDenom)
    /\ poolsResp.data.pools[1] # poolsResp.data.pools[2]

\* the computation ran on a pool, with these operands
RateRan == RateDone /\ rateResult.ok
SellAmountNum == ParseTable[poolRateArg]
SellReserve == Reserve(maybePool.value.pool, maybePool.value.sellAssetIndex)
BuyReserve == Reserve(maybePool.value.pool, maybePool.value.buyAssetIndex)
BuyAmountNum == ParseTable[rateResult.value.buyAmountCryptoBaseUnit]

\* C8: buyAmount is strictly less than the buy reserve before the trade.
C8_BuyAmountBelowReserve ==
    (RateRan /\ SellAmountNum > 0) => BuyAmountNum < BuyReserve

\* C9 as stated: a positive sell amount smaller than the sell reserve buys a
\* positive amount.
C9_PositiveBuyAmount ==
    (RateRan /\ SellAmountNum > 0 /\ SellAmountNum < SellReserve) => BuyAmountNum > 0

\* C9, amended: a positive sell amount smaller than the sell reserve buys no
\* negative amount, and buys a positive amount whenever the constant-product
\* output buyReserve * sellAmount / (sellReserve + sellAmount) is at least
\* one base unit.
C9_PositiveBuyAmountFromOneUnit ==
    (RateRan /\ SellAmountNum > 0 /\ SellAmountNum < SellReserve) =>
        /\ BuyAmountNum >= 0
        /\ (BuyReserve * SellAmountNum >= SellReserve + SellAmountNum => BuyAmountNum > 0)

C9_Witness ==
    /\ RateRan /\ SellAmountNum > 0 /\ SellAmountNum < SellReserve
    /\ BuyReserve * SellAmountNum >= SellReserve + SellAmountNum
    /\ BuyAmountNum > 0 /\ BuyAmountNum < BuyReserve

\* C10: getRateInfo of sell amount '0' returns what getRateInfo of '1'
\* returns for the same pools and pair, and getPoolRateInfo is never run on
\* the amount '0'.
C10_ZeroSellsAsOne ==
    /\ poolRateArg # "0"
    /\ (RateDone /\ rateReq.sellAmount = "0") =>
          rateResult = GetRateInfo(poolsResp, rateReq.sellAsset, rateReq.buyAsset, "1")

C10_Witness ==
    /\ RateDone /\ rateReq.sellAmount = "0" /\ rateResult.ok /\ poolRateArg = "1"
    /\ rateResult.value.buyAmountCryptoBaseUnit # "0"

(***************************************************************************)
(* Further properties of the poller (Spec)                                 *)
(***************************************************************************)

HasRead == lastResponse.kind # "none"

\* C11: every status read maps to one of 'success', 'failed', 'not found':
\* 'success' iff the response has gas_used and no codespace, 'failed' iff it
\* has a codespace, 'not found' otherwise; a network error reads as
\* 'not found' and the poll goes on to its timer or to its timeout rejection,
\* never to an exception of the request.
C11_StatusMapping ==
    HasRead =>
        /\ lastStatus \in {"success", "failed", "not found"}
        /\ lastStatus = "success" <=>
              (lastResponse.kind = "data" /\ ~lastResponse.codespace /\ lastResponse.gas_used)
        /\ lastStatus = "failed" <=> (lastResponse.kind = "data" /\ lastResponse.codespace)
        /\ lastResponse.kind = "networkError" =>
              /\ lastStatus = "not found"
              /\ \/ settled = Pending /\ Polling
                 \/ settled = Rejected(PollTimeoutError(txid)) /\ Elapsed > timeout

C11_Witness ==
    /\ lastResponse.kind = "networkError" /\ pollPc = "waiting" /\ timers = 1
    /\ lastStatus = "not found"

\* C12: at every moment at most one status request is in flight or one timer
\* is pending, never both and never two of either; and a timer is set only
\* by the step that completes the status read of its tick.
C12_NoConcurrentTicks ==
    /\ [](requests + timers <= 1)
    /\ [][timers' > timers => (requests = 1 /\ requests' = 0 /\ timers' = 1)]_vars
    /\ [][requests' > requests => (timers' = 0 /\ requests' = 1)]_vars

C12_Witness == pollPc = "reading" /\ requests = 1 /\ timers = 0 /\ Elapsed >= 2 * interval

\* C14: a status read of 'success' resolves the promise with 'success' even
\* when more than the timeout has elapsed: a late success is not a timeout.
C14_LateSuccessResolves ==
    [][(requests' < requests /\ lastStatus' = "success" /\ now' - startTime > timeout)
         => (pollPc' = "resolved" /\ settled' = Fulfilled("success"))]_vars

C14_Witness == pollPc = "resolved" /\ lastStatus = "success" /\ Elapsed > timeout

Settled == settled # Pending

\* C15: the promise settles at most once: once it is resolved or rejected the
\* poll has ended, no status request is in flight, no timer is pending, and
\* no later step issues a request, sets a timer or changes the outcome.
C15_SettlesOnceAndStops ==
    /\ [](Settled <=> pollPc \in {"resolved", "rejected"})
    /\ [](Settled => requests = 0 /\ timers = 0)
    /\ [][Settled => (settled' = settled /\ requests' = 0 /\ timers' = 0
                        /\ pollPc' = pollPc)]_vars

C15_Witness ==
    /\ pollPc = "rejected" /\ settled.state = "rejected"
    /\ requests = 0 /\ timers = 0 /\ lastStatus = "not found"

(***************************************************************************)
(* Further properties of the rate engine (SpecPool, SpecRate)              *)
(***************************************************************************)

\* C13: buyAmount is buyReserve - k / (sellReserve + sellAmount) rounded
\* down, with k = reserve[0] * reserve[1].
C13_BuyAmountIsFloor ==
    (RateRan /\ SellAmountNum > 0) =>
        LET k == Reserve(maybePool.value.pool, 0) * Reserve(maybePool.value.pool, 1)
            after == SellReserve + SellAmountNum
        IN  BuyAmountNum = (BuyReserve * after - k) \div after

Unmapped(symbol) == symbol \notin MappedSymbols

\* C16: when the sell symbol or the buy symbol is not a key of the symbol
\* table (and every pool has defined denominations), findPool returns Err
\* POOL_NOT_FOUND, and getPoolRateInfo is not run.
C16_UnmappedSymbolIsPoolNotFound ==
    (RateDone /\ poolsResp.ok
        /\ (Unmapped(rateReq.sellAsset) \/ Unmapped(rateReq.buyAsset))
        /\ \A i \in DOMAIN poolsResp.data.pools :
              Denom(poolsResp.data.pools[i], 0) # Undefined
                 /\ Denom(poolsResp.data.pools[i], 1) # Undefined)
      => IsPoolNotFound(maybePool) /\ IsPoolNotFound(rateResult) /\ poolRateArg = Unset

C16_Witness ==
    /\ RateDone /\ poolsResp.ok /\ Len(poolsResp.data.pools) = MaxPools
    /\ rateReq.sellAsset = "BTC" /\ rateReq.buyAsset = "ATOM"
    /\ Denom(poolsResp.data.pools[1], 0) = UOSMO
    /\ Denom(poolsResp.data.pools[1], 1) = ATOM_DENOM
    /\ IsPoolNotFound(maybePool)

====
